---- MODULE Spec2Model ----
(***************************************************************************)
(* State-machine model of sqlite-vfs (src/src/lib.rs): the adapter between *)
(* SQLite's sqlite3_vfs / sqlite3_io_methods tables and an application's   *)
(* Vfs / File implementation.                                              *)
(*                                                                         *)
(* One action models one extern "C" entry point, from its first statement  *)
(* to its return.  Pointers are natural numbers, 0 being the null pointer. *)
(* Byte strings are sequences of numbers 0..255.  An i32 flags word is     *)
(* modelled by its two's complement bit pattern.                           *)
(***************************************************************************)
EXTENDS Integers, Sequences, FiniteSets

(***************************************************************************)
(* Bounds of the model.                                                    *)
(***************************************************************************)
\* largest file size the reference provider stores
MaxSize == 2
\* largest offset the host reads or writes at
MaxOff == 2
\* largest number of bytes the host reads or writes in one call
MaxLen == 2

\* the sqlite3_file blocks the host has allocated
Handles == {1, 2}

\* std::ptr::null / null_mut
NULL == 0

(***************************************************************************)
(* Open flags (libsqlite3_sys constants used by the from_flags decoders).  *)
(***************************************************************************)
SQLITE_OPEN_READONLY == 1
SQLITE_OPEN_READWRITE == 2
SQLITE_OPEN_CREATE == 4
SQLITE_OPEN_DELETEONCLOSE == 8
SQLITE_OPEN_EXCLUSIVE == 16
SQLITE_OPEN_MAIN_DB == 256
SQLITE_OPEN_TEMP_DB == 512
SQLITE_OPEN_TRANSIENT_DB == 1024
SQLITE_OPEN_MAIN_JOURNAL == 2048
SQLITE_OPEN_TEMP_JOURNAL == 4096
SQLITE_OPEN_SUBJOURNAL == 8192
SQLITE_OPEN_SUPER_JOURNAL == 16384
SQLITE_OPEN_WAL == 524288

\* bitwise and of two bit patterns (the & of the decoders)
RECURSIVE BitAnd(_, _)
BitAnd(a, b) ==
    IF a = 0 \/ b = 0 THEN 0
    ELSE (a % 2) * (b % 2) + 2 * BitAnd(a \div 2, b \div 2)

\* Option::None of the decoders
None == "None"

\* variant: the databases are tested before the journals
OpenKind_from_flags_skip_journal(flags) ==
    IF BitAnd(flags, SQLITE_OPEN_MAIN_DB) > 0 THEN "MainDb"
    ELSE IF BitAnd(flags, SQLITE_OPEN_TEMP_DB) > 0 THEN "TempDb"
    ELSE IF BitAnd(flags, SQLITE_OPEN_MAIN_JOURNAL) > 0 THEN "MainJournal"
    ELSE IF BitAnd(flags, SQLITE_OPEN_TEMP_JOURNAL) > 0 THEN "TempJournal"
    ELSE IF BitAnd(flags, SQLITE_OPEN_TRANSIENT_DB) > 0 THEN "TransientDb"
    ELSE IF BitAnd(flags, SQLITE_OPEN_SUBJOURNAL) > 0 THEN "SubJournal"
    ELSE IF BitAnd(flags, SQLITE_OPEN_SUPER_JOURNAL) > 0 THEN "SuperJournal"
    ELSE IF BitAnd(flags, SQLITE_OPEN_WAL) > 0 THEN "Wal"
    ELSE None

\* OpenKind::from_flags: the first kind bit set, in match-arm order
OpenKind_from_flags(flags) ==
    IF BitAnd(flags, SQLITE_OPEN_MAIN_DB) > 0 THEN "MainDb"
    ELSE IF BitAnd(flags, SQLITE_OPEN_MAIN_JOURNAL) > 0 THEN "MainJournal"
    ELSE IF BitAnd(flags, SQLITE_OPEN_TEMP_DB) > 0 THEN "TempDb"
    ELSE IF BitAnd(flags, SQLITE_OPEN_TEMP_JOURNAL) > 0 THEN "TempJournal"
    ELSE IF BitAnd(flags, SQLITE_OPEN_TRANSIENT_DB) > 0 THEN "TransientDb"
    ELSE IF BitAnd(flags, SQLITE_OPEN_SUBJOURNAL) > 0 THEN "SubJournal"
    ELSE IF BitAnd(flags, SQLITE_OPEN_SUPER_JOURNAL) > 0 THEN "SuperJournal"
    ELSE IF BitAnd(flags, SQLITE_OPEN_WAL) > 0 THEN "Wal"
    ELSE None

\* variant: the create arm comes before the create-and-exclusive arm
OpenAccess_from_flags_create_first(flags) ==
    IF BitAnd(flags, SQLITE_OPEN_CREATE) > 0 THEN "Create"
    ELSE IF BitAnd(flags, SQLITE_OPEN_CREATE) > 0
            /\ BitAnd(flags, SQLITE_OPEN_EXCLUSIVE) > 0 THEN "CreateNew"
    ELSE IF BitAnd(flags, SQLITE_OPEN_READWRITE) > 0 THEN "Write"
    ELSE IF BitAnd(flags, SQLITE_OPEN_READONLY) > 0 THEN "Read"
    ELSE None

\* OpenAccess::from_flags
OpenAccess_from_flags(flags) ==
    IF BitAnd(flags, SQLITE_OPEN_CREATE) > 0
       /\ BitAnd(flags, SQLITE_OPEN_EXCLUSIVE) > 0 THEN "CreateNew"
    ELSE IF BitAnd(flags, SQLITE_OPEN_CREATE) > 0 THEN "Create"
    ELSE IF BitAnd(flags, SQLITE_OPEN_READWRITE) > 0 THEN "Write"
    ELSE IF BitAnd(flags, SQLITE_OPEN_READONLY) > 0 THEN "Read"
    ELSE None

\* the value of an undecodable flags word
NoOpts == [kind |-> None, access |-> None, delete_on_close |-> FALSE]

\* variant: a failed access decode falls back to Read
OpenOptions_from_flags_default_access(flags) ==
    IF OpenKind_from_flags(flags) = None THEN NoOpts
    ELSE [kind |-> OpenKind_from_flags(flags),
          access |-> IF OpenAccess_from_flags(flags) = None THEN "Read"
                     ELSE OpenAccess_from_flags(flags),
          delete_on_close |-> BitAnd(flags, SQLITE_OPEN_DELETEONCLOSE) > 0]

\* OpenOptions::from_flags: each ? returns None for the whole decode
OpenOptions_from_flags(flags) ==
    IF OpenKind_from_flags(flags) = None THEN NoOpts
    ELSE IF OpenAccess_from_flags(flags) = None THEN NoOpts
    ELSE [kind |-> OpenKind_from_flags(flags),
          access |-> OpenAccess_from_flags(flags),
          delete_on_close |-> BitAnd(flags, SQLITE_OPEN_DELETEONCLOSE) > 0]

(***************************************************************************)
(* Byte strings, paths and errors.                                         *)
(***************************************************************************)
\* the paths the host passes (C strings without their terminator):
\* "a", "b" and the single byte 0xFF, which is not valid UTF-8
PathA == <<97>>
PathB == <<98>>
PathBad == <<255>>

\* U+FFFD REPLACEMENT CHARACTER in UTF-8
Replacement == <<239, 191, 189>>

IsCont(b) == b >= 128 /\ b <= 191

\* number of bytes of the UTF-8 sequence starting s, 0 when it is invalid
Utf8Len(s) ==
    LET b == s[1] IN
    IF b < 128 THEN 1
    ELSE IF b >= 194 /\ b <= 223 /\ Len(s) >= 2 /\ IsCont(s[2]) THEN 2
    ELSE IF b >= 224 /\ b <= 239 /\ Len(s) >= 3 /\ IsCont(s[2]) /\ IsCont(s[3]) THEN 3
    ELSE IF b >= 240 /\ b <= 244 /\ Len(s) >= 4
            /\ IsCont(s[2]) /\ IsCont(s[3]) /\ IsCont(s[4]) THEN 4
    ELSE 0

\* CStr::to_str(..).is_ok()
RECURSIVE IsUtf8(_)
IsUtf8(s) ==
    IF s = <<>> THEN TRUE
    ELSE IF Utf8Len(s) = 0 THEN FALSE
    ELSE IsUtf8(SubSeq(s, Utf8Len(s) + 1, Len(s)))

\* CStr::to_string_lossy().to_string(): invalid bytes become U+FFFD
RECURSIVE to_string_lossy(_)
to_string_lossy(s) ==
    IF s = <<>> THEN <<>>
    ELSE IF Utf8Len(s) = 0 THEN Replacement \o to_string_lossy(Tail(s))
    ELSE SubSeq(s, 1, Utf8Len(s)) \o to_string_lossy(SubSeq(s, Utf8Len(s) + 1, Len(s)))

\* std::io::Error, as its kind and the text Display renders
NoError == [kind |-> "None", msg |-> <<>>]

\* "invalid open flags"
InvalidFlagsError ==
    [kind |-> "Other",
     msg |-> <<105, 110, 118, 97, 108, 105, 100, 32, 111, 112, 101, 110, 32,
               102, 108, 97, 103, 115>>]

\* "received null pointer"
null_ptr_error ==
    [kind |-> "Other",
     msg |-> <<114, 101, 99, 101, 105, 118, 101, 100, 32, 110, 117, 108, 108, 32,
               112, 111, 105, 110, 116, 101, 114>>]

\* failures an application's Vfs or File may return from any call
ErrNul == [kind |-> "Other", msg |-> <<69, 0, 70>>]
ErrNotFound == [kind |-> "NotFound", msg |-> <<78>>]
ErrEof == [kind |-> "UnexpectedEof", msg |-> <<85>>]
ErrExists == [kind |-> "AlreadyExists", msg |-> <<65>>]
ErrDenied == [kind |-> "PermissionDenied", msg |-> <<68>>]

\* what the application does on one entry: nothing special, a failure of the
\* seek, a seek that lands at another offset, or a failure of the main call
NoInjection == [at |-> "none", err |-> NoError]
Fail(e) == [at |-> "io", err |-> e]
SeekFail(e) == [at |-> "seek", err |-> e]
SeekElsewhere == [at |-> "elsewhere", err |-> NoError]

\* std::io::Error's Display: the message
to_string(err) == err.msg

HasNul(s) == \E i \in 1..Len(s) : s[i] = 0

\* CString::new(..).is_ok(): no interior nul byte
CString_new_ok(s) == ~HasNul(s)

\* CString::to_bytes_with_nul
to_bytes_with_nul(s) == s \o <<0>>

(***************************************************************************)
(* The reference provider: the FsVfs of the Vfs documentation, std::fs     *)
(* files as byte arrays.  A Result is a record with ok, err and a value.   *)
(***************************************************************************)
Ok(v) == [ok |-> TRUE, err |-> NoError, val |-> v]
Err(e) == [ok |-> FALSE, err |-> e, val |-> <<>>]

Zeros(n) == [i \in 1..n |-> 0]

\* Vfs::open: the storage after the call, when it succeeds
VfsOpenDisk(disk0, path, opts) ==
    IF path \in DOMAIN disk0 THEN disk0
    ELSE [p \in DOMAIN disk0 \cup {path} |-> IF p = path THEN <<>> ELSE disk0[p]]

\* Vfs::open
VfsOpen(disk0, path, opts) ==
    IF opts.access = "CreateNew" /\ path \in DOMAIN disk0 THEN Err(ErrExists)
    ELSE IF opts.access \in {"Read", "Write"} /\ path \notin DOMAIN disk0
        THEN Err(ErrNotFound)
    ELSE Ok(<<>>)

\* Read::read_exact on a byte array: an empty buffer is filled at once
FileReadExact(content, off, n) ==
    IF n = 0 THEN Ok(<<>>)
    ELSE IF off + n <= Len(content) THEN Ok(SubSeq(content, off + 1, off + n))
    ELSE [ok |-> FALSE, err |-> ErrEof,
          val |-> SubSeq(content, off + 1, Len(content))]

\* Write::write_all on a byte array: the content after the call
FileWriteAll(content, off, data) ==
    IF data = <<>> THEN content
    ELSE LET padded == IF Len(content) < off
                       THEN content \o Zeros(off - Len(content)) ELSE content
         IN SubSeq(padded, 1, off) \o data
            \o SubSeq(padded, off + Len(data) + 1, Len(padded))

\* File::truncate (set_len): the content after the call
FileTruncate(content, size) ==
    IF size <= Len(content) THEN SubSeq(content, 1, size)
    ELSE content \o Zeros(size - Len(content))

(***************************************************************************)
(* State.                                                                  *)
(***************************************************************************)
VARIABLES
    last_error,   \* State.last_error: the content of the shared Cell
    rc,           \* strong count of the Rc around that Cell
    files,        \* the FileState blocks, by handle
    heap,         \* the heap: CStrings and File instances, by address
    disk,         \* the provider's storage: content by path
    ret,          \* the last entry point called: arguments, status, outputs
    rt,           \* progress of a write / sync / read round trip
    crashed,      \* the process has panicked inside an entry point
    flags_in,     \* decoder check: the flags word
    decoded,      \* decoder check: what the three from_flags return
    threads       \* host threads inside an entry point: position and locals

vars == <<last_error, rc, files, heap, disk, ret, rt, crashed, flags_in, decoded, threads>>

\* address of State.io_methods
IO_METHODS == 1
\* address of the Cell inside the Rc (Rc::into_raw)
CHAN == 1

Addrs == 1..(2 * Cardinality(Handles) + 2)
FreeSlot == [live |-> FALSE, kind |-> "-", bytes |-> <<>>, access |-> "-"]
FreeAddrs(hp) == {a \in Addrs : ~hp[a].live}
\* the allocator: the lowest free address
Alloc(hp) == CHOOSE a \in FreeAddrs(hp) : \A b \in FreeAddrs(hp) : a <= b

\* a zeroed FileState block
ZeroBlock == [pMethods |-> NULL, name |-> NULL, file |-> NULL, last_error |-> NULL]

\* the record of one call; every entry point fills in what it uses
\* (entry_err: what the Channel held when an entry that only resolves its
\* block was called)
Call(op, h) ==
    [op |-> op, h |-> h, status |-> "-", calls |-> <<>>, inj |-> "none",
     cap_err |-> NoError, flags |-> 0, opts |-> NoOpts, path |-> <<>>, off |-> 0,
     len |-> 0,
     data |-> <<>>, slot |-> NULL, out |-> <<>>, freed |-> <<>>, nth |-> 0,
     ub |-> FALSE, entry_err |-> NoError]

NoRoundTrip == [stage |-> 0, h |-> 0, off |-> 0, data |-> <<>>]

\* the host calls from one thread only
NoThreads == <<>>

IsOpen(h) == files[h].file # NULL /\ files[h].name # NULL

\* the flags words the host opens files with
OpenFlags ==
    { SQLITE_OPEN_MAIN_DB + SQLITE_OPEN_READWRITE + SQLITE_OPEN_CREATE,
      SQLITE_OPEN_MAIN_DB + SQLITE_OPEN_READONLY,
      SQLITE_OPEN_MAIN_JOURNAL + SQLITE_OPEN_READWRITE + SQLITE_OPEN_CREATE
          + SQLITE_OPEN_EXCLUSIVE + SQLITE_OPEN_DELETEONCLOSE,
      SQLITE_OPEN_WAL + SQLITE_OPEN_READWRITE,
      SQLITE_OPEN_READWRITE + SQLITE_OPEN_CREATE,
      SQLITE_OPEN_MAIN_DB + SQLITE_OPEN_EXCLUSIVE }

\* before the decoders have run
NotDecoded == [kind |-> "-", access |-> "-", opts |-> NoOpts]

Init ==
    /\ last_error = NoError
    /\ rc = 1
    /\ files = [h \in Handles |-> ZeroBlock]
    /\ heap = [a \in Addrs |-> FreeSlot]
    /\ disk = [p \in {} |-> <<>>]
    /\ ret = Call("register", 0)
    /\ rt = NoRoundTrip
    /\ crashed = FALSE
    /\ flags_in = 0
    /\ decoded = NotDecoded
    /\ threads = NoThreads

(***************************************************************************)
(* Filesystem dispatch.                                                    *)
(***************************************************************************)
\* the FileState block open fills in
\* variant: the boxed File is not stored
OpenBlock_no_file(name_addr, file_addr) ==
    [pMethods |-> IO_METHODS, name |-> name_addr, file |-> NULL, last_error |-> CHAN]

OpenBlock(name_addr, file_addr) ==
    [pMethods |-> IO_METHODS, name |-> name_addr, file |-> file_addr, last_error |-> CHAN]

\* variant: the Channel's address is stored without a new reference
Rc_clone_borrowed(n) == n

\* Rc::clone(&state.last_error): one more strong reference to the Channel
Rc_clone(n) == n + 1

\* the heap after the allocations as are released
RECURSIVE FreeAll(_, _)
FreeAll(hp, as) ==
    IF as = <<>> THEN hp ELSE FreeAll([hp EXCEPT ![Head(as)] = FreeSlot], Tail(as))

\* variant: the File is kept when the block pointer is null
OpenNullFrees_leak(fa) == <<>>

\* what vfs::open releases when the block pointer is null: the File the
\* provider returned, dropped when the closure returns the error
OpenNullFrees(fa) == <<fa>>

\* vfs::open.  The host passes a null block or one that holds no open file.
Open(pf, z_name, flags, inj) ==
    LET path == to_string_lossy(z_name)
        opts == OpenOptions_from_flags(flags)
        r == IF inj.at = "io" THEN Err(inj.err) ELSE VfsOpen(disk, path, opts)
        c == [Call("open", pf) EXCEPT !.flags = flags, !.inj = inj.at, !.path = z_name]
        called == [c EXCEPT !.calls = <<"open">>, !.opts = opts]
        fa == Alloc(heap)
        hp1 == [heap EXCEPT ![fa] = [live |-> TRUE, kind |-> "File",
                                     bytes |-> path, access |-> opts.access]]
        na == Alloc(hp1)
        hp2 == [hp1 EXCEPT ![na] = [live |-> TRUE, kind |-> "CString",
                                    bytes |-> z_name, access |-> "-"]]
    IN
    /\ ~crashed
    /\ pf \in Handles => ~IsOpen(pf)
    /\ rt' = NoRoundTrip
    /\ UNCHANGED <<flags_in, decoded, threads>>
    /\ IF opts = NoOpts THEN
           /\ inj = NoInjection
           /\ last_error' = InvalidFlagsError
           /\ ret' = [c EXCEPT !.status = "SQLITE_CANTOPEN"]
           /\ UNCHANGED <<rc, files, heap, disk, crashed>>
       ELSE IF ~r.ok THEN
           /\ last_error' = r.err
           /\ ret' = [called EXCEPT !.status = "SQLITE_CANTOPEN", !.cap_err = r.err]
           /\ UNCHANGED <<rc, files, heap, disk, crashed>>
       ELSE IF pf = NULL THEN
           \* the File the provider returned is dropped with the closure
           /\ disk' = VfsOpenDisk(disk, path, opts)
           /\ last_error' = null_ptr_error
           /\ heap' = FreeAll(hp1, OpenNullFrees(fa))
           /\ ret' = [called EXCEPT !.status = "SQLITE_CANTOPEN",
                                    !.freed = OpenNullFrees(fa)]
           /\ UNCHANGED <<rc, files, crashed>>
       ELSE IF ~IsUtf8(z_name) THEN
           \* name.unwrap() panics, after pMethods was stored
           /\ disk' = VfsOpenDisk(disk, path, opts)
           /\ last_error' = NoError
           /\ files' = [files EXCEPT ![pf].pMethods = IO_METHODS]
           /\ crashed' = TRUE
           /\ ret' = [called EXCEPT !.status = "panic"]
           /\ UNCHANGED <<rc, heap>>
       ELSE
           /\ disk' = VfsOpenDisk(disk, path, opts)
           /\ last_error' = NoError
           /\ heap' = hp2
           /\ files' = [files EXCEPT ![pf] = OpenBlock(na, fa)]
           /\ rc' = Rc_clone(rc)
           /\ ret' = [called EXCEPT !.status = "SQLITE_OK"]
           /\ UNCHANGED crashed

\* Vfs::delete of the reference provider
VfsDelete(disk0, hp, path) ==
    IF path \notin DOMAIN disk0 THEN Err(ErrNotFound)
    ELSE IF \E a \in Addrs : hp[a].live /\ hp[a].kind = "File" /\ hp[a].bytes = path
        THEN Err(ErrDenied)
    ELSE Ok(<<>>)

\* variant: not-found is reported like any other failure
DeleteStatus_not_idempotent(r) ==
    IF r.ok THEN "SQLITE_OK" ELSE "SQLITE_DELETE"

\* the status vfs::delete returns for the provider's result
DeleteStatus(r) ==
    IF r.ok THEN "SQLITE_OK"
    ELSE IF r.err.kind = "NotFound" THEN "SQLITE_OK"
    ELSE "SQLITE_DELETE"

\* vfs::delete
Delete(z_path, inj) ==
    LET path == to_string_lossy(z_path)
        r == IF inj.at = "io" THEN Err(inj.err) ELSE VfsDelete(disk, heap, path)
        st == DeleteStatus(r)
    IN
    /\ ~crashed
    /\ rt' = NoRoundTrip
    /\ disk' = IF r.ok THEN [p \in DOMAIN disk \ {path} |-> disk[p]] ELSE disk
    /\ last_error' = IF st = "SQLITE_OK" THEN NoError ELSE r.err
    /\ ret' = [Call("delete", 0) EXCEPT
                  !.status = st, !.inj = inj.at, !.path = z_path,
                  !.calls = <<"delete">>, !.cap_err = r.err,
                  !.nth = IF ret.op = "delete" /\ ret.path = z_path THEN 2 ELSE 1]
    /\ UNCHANGED <<rc, files, heap, crashed, flags_in, decoded, threads>>

\* access flavors (libsqlite3_sys)
SQLITE_ACCESS_EXISTS == 0
SQLITE_ACCESS_READWRITE == 1
SQLITE_ACCESS_READ == 2
AccessFlavors == 0..3

\* variant: the read and the read-write flavors are exchanged
AccessCall_swapped(flavor) ==
    IF flavor = SQLITE_ACCESS_EXISTS THEN "exists"
    ELSE IF flavor = SQLITE_ACCESS_READ THEN "access_write"
    ELSE IF flavor = SQLITE_ACCESS_READWRITE THEN "access_read"
    ELSE None

\* the provider query vfs::access makes for a flavor
AccessCall(flavor) ==
    IF flavor = SQLITE_ACCESS_EXISTS THEN "exists"
    ELSE IF flavor = SQLITE_ACCESS_READ THEN "access_read"
    ELSE IF flavor = SQLITE_ACCESS_READWRITE THEN "access_write"
    ELSE None

\* Vfs::exists of the reference provider, Vfs::access by default
VfsQuery(disk0, path, call) ==
    IF call = "exists" THEN Ok(path \in DOMAIN disk0) ELSE Ok(TRUE)

\* vfs::access
Access(z_path, flavor, p_res_out, inj) ==
    LET path == to_string_lossy(z_path)
        call == AccessCall(flavor)
        r == IF inj.at = "io" THEN Err(inj.err) ELSE VfsQuery(disk, path, call)
        c == [Call("access", 0) EXCEPT !.flags = flavor, !.slot = p_res_out,
                                       !.inj = inj.at, !.path = z_path]
    IN
    /\ ~crashed
    /\ rt' = NoRoundTrip
    /\ UNCHANGED <<rc, files, heap, disk, crashed, flags_in, decoded, threads>>
    /\ IF call = None THEN
           /\ inj = NoInjection
           /\ last_error' = NoError
           /\ ret' = [c EXCEPT !.status = "SQLITE_IOERR_ACCESS"]
       ELSE IF ~r.ok THEN
           /\ last_error' = r.err
           /\ ret' = [c EXCEPT !.status = "SQLITE_IOERR_ACCESS", !.calls = <<call>>,
                               !.cap_err = r.err]
       ELSE IF p_res_out = NULL THEN
           /\ last_error' = null_ptr_error
           /\ ret' = [c EXCEPT !.status = "SQLITE_IOERR_ACCESS", !.calls = <<call>>]
       ELSE
           /\ last_error' = NoError
           /\ ret' = [c EXCEPT !.status = "SQLITE_OK", !.calls = <<call>>,
                               !.out = <<IF r.val THEN 1 ELSE 0>>]

\* sizes of the buffer the host passes to get_last_error
BufSizes == {0, 2, 32}

\* variant: the error is put back when it cannot be delivered
LastErrorAfterGet_keep_on_failure(err, n_byte) ==
    IF err # NoError
       /\ (~CString_new_ok(to_string(err))
           \/ Len(to_bytes_with_nul(to_string(err))) > n_byte)
    THEN err ELSE NoError

\* the slot after vfs::get_last_error: take() empties it in every case
LastErrorAfterGet(err, n_byte) == NoError

\* variant: the message is copied without its terminator
GetLastErrorOut_no_terminator(err, n_byte) ==
    IF err = NoError THEN <<>>
    ELSE IF ~CString_new_ok(to_string(err)) THEN <<>>
    ELSE IF Len(to_bytes_with_nul(to_string(err))) > n_byte THEN <<>>
    ELSE to_string(err)

\* the bytes vfs::get_last_error copies to z_err_msg
GetLastErrorOut(err, n_byte) ==
    IF err = NoError THEN <<>>
    ELSE IF ~CString_new_ok(to_string(err)) THEN <<>>
    ELSE IF Len(to_bytes_with_nul(to_string(err))) > n_byte THEN <<>>
    ELSE to_bytes_with_nul(to_string(err))

\* the status vfs::get_last_error returns
GetLastErrorStatus(err, n_byte) ==
    IF err = NoError THEN "SQLITE_OK"
    ELSE IF ~CString_new_ok(to_string(err)) THEN "SQLITE_ERROR"
    ELSE IF Len(to_bytes_with_nul(to_string(err))) > n_byte THEN "SQLITE_ERROR"
    ELSE "SQLITE_OK"

\* the call r was a get_last_error that found an error whose message, with
\* its terminator, is longer than the buffer
RefusedForSize(r) ==
    /\ r.op = "get_last_error" /\ r.status = "SQLITE_ERROR"
    /\ r.entry_err # NoError
    /\ CString_new_ok(to_string(r.entry_err))
    /\ Len(to_bytes_with_nul(to_string(r.entry_err))) > r.len

\* vfs::get_last_error
GetLastError(n_byte) ==
    /\ ~crashed
    /\ rt' = NoRoundTrip
    /\ last_error' = LastErrorAfterGet(last_error, n_byte)
    /\ ret' = [Call("get_last_error", 0) EXCEPT
                  !.status = GetLastErrorStatus(last_error, n_byte),
                  !.len = n_byte,
                  !.out = GetLastErrorOut(last_error, n_byte),
                  !.entry_err = last_error,
                  !.nth = IF ret.op = "get_last_error" /\ ret.out # <<>> THEN 2
                          ELSE IF RefusedForSize(ret) /\ ret.len < n_byte THEN 3
                          ELSE 1]
    /\ UNCHANGED <<rc, files, heap, disk, crashed, flags_in, decoded, threads>>

\* const MAX_PATH_LENGTH
MAX_PATH_LENGTH == 512

\* a path of n bytes, each the letter a
LongPath(n) == [i \in 1..n |-> 97]

\* the lengths of the paths and the buffer capacities the host passes to
\* full_pathname (n_out is a capacity: never negative)
PathLens == {0, 1, 510, 511, 512}
Capacities == {0, 1, 2, 511, 512, 513, 600}

\* variant: a name of exactly MAX_PATH_LENGTH bytes is refused
FullPathnameFits_off_by_one(name, n_out) ==
    ~(Len(name) > n_out \/ Len(name) >= MAX_PATH_LENGTH)

\* the test vfs::full_pathname makes before it copies
FullPathnameFits(name, n_out) ==
    ~(Len(name) > n_out \/ Len(name) > MAX_PATH_LENGTH)

\* vfs::full_pathname
FullPathname(z_path, n_out) ==
    LET name == to_bytes_with_nul(z_path)
        fits == FullPathnameFits(name, n_out)
    IN
    /\ ~crashed
    /\ rt' = NoRoundTrip
    /\ last_error' = NoError
    /\ ret' = [Call("full_pathname", 0) EXCEPT
                  !.path = z_path, !.len = n_out,
                  !.status = IF fits THEN "SQLITE_OK" ELSE "SQLITE_ERROR",
                  !.out = IF fits THEN name ELSE <<>>]
    /\ UNCHANGED <<rc, files, heap, disk, crashed, flags_in, decoded, threads>>

\* seconds since the Unix epoch the clock may show
Clock == {0, 1}

\* 2440587.5 + now / 864.0e5, kept exact: half days plus now over 86400000
JulianDay(now) == [half_days |-> 4881175, plus |-> now, per |-> 86400000]

\* vfs::current_time (p_time_out is not null)
CurrentTime(now) ==
    /\ ~crashed
    /\ rt' = NoRoundTrip
    /\ last_error' = NoError
    /\ ret' = [Call("current_time", 0) EXCEPT
                  !.status = "SQLITE_OK", !.out = <<JulianDay(now)>>]
    /\ UNCHANGED <<rc, files, heap, disk, crashed, flags_in, decoded, threads>>

\* vfs::current_time_int64 (p is not null): the Julian day times 864.0e5
CurrentTimeInt64(now) ==
    /\ ~crashed
    /\ rt' = NoRoundTrip
    /\ last_error' = NoError
    /\ ret' = [Call("current_time_int64", 0) EXCEPT
                  !.status = "SQLITE_OK",
                  !.out = <<[JulianDay(now) EXCEPT !.per = 1]>>]
    /\ UNCHANGED <<rc, files, heap, disk, crashed, flags_in, decoded, threads>>

(***************************************************************************)
(* File dispatch.  The host calls these on blocks that hold an open file;  *)
(* a host that breaks this contract calls them on a block it has closed.   *)
(***************************************************************************)
\* variant: the Channel is left as it was
unset_last_error_keep(err) == err

\* FileState::unset_last_error: take() empties the Channel
unset_last_error(err) == NoError

\* variant: the error is dropped, the Channel left as it was
set_last_error_lost(slot, err) == slot

\* FileState::set_last_error: set(Some(err)) replaces what the Channel held
set_last_error(slot, err) == err

\* file_state(p_file, true) on a block whose last_error field is null:
\* unset_last_error goes through the null pointer (Rc::from_raw, take).  The
\* behaviour is undefined: the process stops on the fault, or the access goes
\* unnoticed and the entry carries on to the status it then returns; whatever
\* it takes or sets through the null pointer is not the registration's Channel.
Stale(c, status, fault) ==
    /\ crashed' = fault
    /\ ret' = [c EXCEPT !.status = IF fault THEN "fault" ELSE status, !.ub = TRUE]
    /\ rt' = NoRoundTrip
    /\ UNCHANGED <<last_error, rc, files, heap, disk, flags_in, decoded, threads>>

\* variant: the File field is left dangling
CloseBlock_keep_file(b) == [b EXCEPT !.name = NULL, !.last_error = NULL]

\* the block as io::close leaves it
CloseBlock(b) == [b EXCEPT !.name = NULL, !.file = NULL, !.last_error = NULL]

\* variant: the boxed File is leaked
CloseFrees_name_only(b) == <<b.name>>

\* what io::close releases: the CString, then the boxed File
CloseFrees(b) == <<b.name, b.file>>

\* io::close
Close(h, fault) ==
    /\ ~crashed
    /\ IF files[h].last_error = NULL
       THEN Stale(Call("close", h), "SQLITE_OK", fault)
       ELSE /\ rt' = NoRoundTrip
            /\ last_error' = NoError
            /\ heap' = FreeAll(heap, CloseFrees(files[h]))
            /\ files' = [files EXCEPT ![h] = CloseBlock(files[h])]
            /\ rc' = rc - 1
            /\ ret' = [Call("close", h) EXCEPT !.status = "SQLITE_OK",
                                               !.freed = CloseFrees(files[h])]
            /\ UNCHANGED <<disk, crashed, flags_in, decoded, threads>>

\* variant: every handle reaches the File of the first open block
FileOf_first_open(h) ==
    heap[files[CHOOSE x \in Handles : IsOpen(x) /\ \A y \in Handles : IsOpen(y) => x <= y].file]

\* the File instance and the stored bytes behind an open handle
FileOf(h) == heap[files[h].file]
ContentOf(h) == disk[FileOf(h).bytes]

\* the byte strings of at most n bytes over the byte values B
Strings(B, n) == UNION {[1..k -> B] : k \in 0..n}

\* variant: end of data is reported as a read error
ReadStatus_eof_as_error(r) ==
    IF r.ok THEN "SQLITE_OK" ELSE "SQLITE_IOERR_READ"

\* the status io::read returns for the result of read_exact
ReadStatus(r) ==
    IF r.ok THEN "SQLITE_OK"
    ELSE IF r.err.kind = "UnexpectedEof" THEN "SQLITE_IOERR_SHORT_READ"
    ELSE "SQLITE_IOERR_READ"

\* variant: end of data is deposited like any other failure
ReadDeposit_always(r) ==
    IF r.ok THEN NoError ELSE r.err

\* variant: a failed read_exact deposits nothing
ReadDeposit_never(r) == NoError

\* what io::read leaves in the Error Channel for the result of read_exact
ReadDeposit(r) ==
    IF r.ok THEN NoError
    ELSE IF r.err.kind = "UnexpectedEof" THEN NoError
    ELSE r.err

\* io::read
Read(h, i_ofst, i_amt, inj, fault) ==
    LET r == IF inj.at = "io" THEN Err(inj.err)
             ELSE FileReadExact(ContentOf(h), i_ofst, i_amt)
        c == [Call("read", h) EXCEPT !.off = i_ofst, !.len = i_amt, !.inj = inj.at]
    IN
    /\ ~crashed
    /\ IF files[h].last_error = NULL
       THEN Stale(Call("read", h), "SQLITE_IOERR_CLOSE", fault)
       ELSE /\ rt' = IF rt.stage = 2 /\ rt.h = h /\ rt.off = i_ofst /\ Len(rt.data) = i_amt
                     THEN [rt EXCEPT !.stage = 3] ELSE NoRoundTrip
            /\ UNCHANGED <<rc, files, heap, disk, crashed, flags_in, decoded, threads>>
            /\ IF inj.at = "seek" THEN
                   /\ last_error' = inj.err
                   /\ ret' = [c EXCEPT !.status = "SQLITE_IOERR_READ", !.calls = <<"seek">>,
                                       !.cap_err = inj.err]
               ELSE IF inj.at = "elsewhere" THEN
                   /\ last_error' = NoError
                   /\ ret' = [c EXCEPT !.status = "SQLITE_IOERR_READ", !.calls = <<"seek">>]
               ELSE
                   /\ last_error' = ReadDeposit(r)
                   /\ ret' = [c EXCEPT !.status = ReadStatus(r), !.out = r.val,
                                       !.calls = <<"seek", "read_exact">>, !.cap_err = r.err]

\* Write::write_all of the reference File
FileWriteResult(file, data) ==
    IF data # <<>> /\ file.access = "Read" THEN Err(ErrDenied) ELSE Ok(<<>>)

\* variant: the bytes are appended, the offset ignored
WriteDisk_at_end(content, off, data) == content \o data

\* the stored bytes after a successful io::write
WriteDisk(content, off, data) == FileWriteAll(content, off, data)

\* io::write
Write(h, i_ofst, data, inj, fault) ==
    LET r == IF inj.at = "io" THEN Err(inj.err) ELSE FileWriteResult(FileOf(h), data)
        c == [Call("write", h) EXCEPT !.off = i_ofst, !.len = Len(data),
                                      !.data = data, !.inj = inj.at]
    IN
    /\ ~crashed
    /\ IF files[h].last_error = NULL
       THEN Stale(Call("write", h), "SQLITE_IOERR_WRITE", fault)
       ELSE /\ UNCHANGED <<rc, files, heap, crashed, flags_in, decoded, threads>>
            /\ IF inj.at = "seek" THEN
                   /\ last_error' = inj.err
                   /\ ret' = [c EXCEPT !.status = "SQLITE_IOERR_WRITE", !.calls = <<"seek">>,
                                       !.cap_err = inj.err]
                   /\ rt' = NoRoundTrip
                   /\ UNCHANGED disk
               ELSE IF inj.at = "elsewhere" THEN
                   /\ last_error' = NoError
                   /\ ret' = [c EXCEPT !.status = "SQLITE_IOERR_WRITE", !.calls = <<"seek">>]
                   /\ rt' = NoRoundTrip
                   /\ UNCHANGED disk
               ELSE IF ~r.ok THEN
                   /\ last_error' = r.err
                   /\ ret' = [c EXCEPT !.status = "SQLITE_IOERR_WRITE",
                                       !.calls = <<"seek", "write_all">>, !.cap_err = r.err]
                   /\ rt' = NoRoundTrip
                   /\ UNCHANGED disk
               ELSE
                   /\ last_error' = NoError
                   /\ disk' = [disk EXCEPT ![FileOf(h).bytes] = WriteDisk(@, i_ofst, data)]
                   /\ ret' = [c EXCEPT !.status = "SQLITE_OK", !.calls = <<"seek", "write_all">>]
                   /\ rt' = IF FileOf(h).access = "Create"
                            THEN [stage |-> 1, h |-> h, off |-> i_ofst, data |-> data]
                            ELSE NoRoundTrip

\* File::truncate of the reference File
FileTruncateResult(file, size) ==
    IF file.access = "Read" THEN Err(ErrDenied) ELSE Ok(<<>>)

\* io::truncate
Truncate(h, size, inj, fault) ==
    LET r == IF inj.at = "io" THEN Err(inj.err) ELSE FileTruncateResult(FileOf(h), size)
        c == [Call("truncate", h) EXCEPT !.len = size, !.inj = inj.at,
                                         !.calls = <<"truncate">>, !.cap_err = r.err]
    IN
    /\ ~crashed
    /\ IF files[h].last_error = NULL
       THEN Stale(Call("truncate", h), "SQLITE_IOERR_FSYNC", fault)
       ELSE /\ rt' = NoRoundTrip
            /\ last_error' = r.err
            /\ disk' = IF r.ok THEN [disk EXCEPT ![FileOf(h).bytes] = FileTruncate(@, size)]
                       ELSE disk
            /\ ret' = [c EXCEPT !.status = IF r.ok THEN "SQLITE_OK" ELSE "SQLITE_IOERR_TRUNCATE"]
            /\ UNCHANGED <<rc, files, heap, crashed, flags_in, decoded, threads>>

\* io::sync
Sync(h, inj, fault) ==
    LET r == IF inj.at = "io" THEN Err(inj.err) ELSE Ok(<<>>)
        c == [Call("sync", h) EXCEPT !.inj = inj.at, !.calls = <<"flush">>,
                                     !.cap_err = r.err]
    IN
    /\ ~crashed
    /\ IF files[h].last_error = NULL
       THEN Stale(Call("sync", h), "SQLITE_IOERR_FSYNC", fault)
       ELSE /\ rt' = IF rt.stage = 1 /\ rt.h = h THEN [rt EXCEPT !.stage = 2] ELSE NoRoundTrip
            /\ last_error' = r.err
            /\ ret' = [c EXCEPT !.status = IF r.ok THEN "SQLITE_OK" ELSE "SQLITE_IOERR_FSYNC"]
            /\ UNCHANGED <<rc, files, heap, disk, crashed, flags_in, decoded, threads>>

\* io::file_size
FileSize(h, p_size, inj, fault) ==
    LET r == IF inj.at = "io" THEN Err(inj.err) ELSE Ok(Len(ContentOf(h)))
        c == [Call("file_size", h) EXCEPT !.inj = inj.at, !.slot = p_size,
                                          !.calls = <<"file_size">>, !.cap_err = r.err]
    IN
    /\ ~crashed
    /\ IF files[h].last_error = NULL
       THEN Stale(Call("file_size", h), "SQLITE_IOERR_FSTAT", fault)
       ELSE /\ rt' = NoRoundTrip
            /\ UNCHANGED <<rc, files, heap, disk, crashed, flags_in, decoded, threads>>
            /\ IF ~r.ok THEN
                   /\ last_error' = r.err
                   /\ ret' = [c EXCEPT !.status = "SQLITE_IOERR_FSTAT"]
               ELSE IF p_size = NULL THEN
                   /\ last_error' = null_ptr_error
                   /\ ret' = [c EXCEPT !.status = "SQLITE_IOERR_FSTAT"]
               ELSE
                   /\ last_error' = NoError
                   /\ ret' = [c EXCEPT !.status = "SQLITE_OK", !.out = <<r.val>>]

\* an entry that resolves the block with file_state(p_file, true) and then
\* returns status, writing out
Resolved(c, h, status, out, fault) ==
    /\ ~crashed
    /\ IF files[h].last_error = NULL
       THEN Stale(c, status, fault)
       ELSE /\ last_error' = unset_last_error(last_error)
            /\ ret' = [c EXCEPT !.status = status, !.out = out,
                                !.entry_err = last_error]
            /\ rt' = NoRoundTrip
            /\ UNCHANGED <<rc, files, heap, disk, crashed, flags_in, decoded, threads>>

\* the lock levels of the host: none, shared, reserved, pending, exclusive
LockLevels == 0..4

\* variant: an exclusive lock is refused while another block holds a file
LockStatus_refuse_exclusive(h, e_lock) ==
    IF e_lock = 4 /\ \E g \in Handles \ {h} : files[g].file # NULL
    THEN "SQLITE_BUSY" ELSE "SQLITE_OK"

\* the status io::lock returns once the block is resolved
LockStatus(h, e_lock) == "SQLITE_OK"

\* io::lock; nth is 2 when the call before was a lock of the same level
\* granted on another block
Lock(h, e_lock, fault) ==
    Resolved([Call("lock", h) EXCEPT
                 !.len = e_lock,
                 !.nth = IF ret.op = "lock" /\ ret.status = "SQLITE_OK"
                            /\ ret.h # h /\ ret.len = e_lock THEN 2 ELSE 1],
             h, LockStatus(h, e_lock), <<>>, fault)

\* io::unlock
Unlock(h, e_lock, fault) ==
    Resolved([Call("unlock", h) EXCEPT !.len = e_lock], h, "SQLITE_OK", <<>>, fault)

\* variant: a file open on the same path elsewhere counts as a reserved lock
CheckReservedLockOut_by_path(h) ==
    IF \E g \in Handles \ {h} :
           files[g].file # NULL /\ heap[files[g].file].bytes = heap[files[h].file].bytes
    THEN <<1>> ELSE <<0>>

\* what io::check_reserved_lock writes to *p_res_out: false as i32
CheckReservedLockOut(h) == <<0>>

\* io::check_reserved_lock
CheckReservedLock(h, p_res_out, fault) ==
    LET c == [Call("check_reserved_lock", h) EXCEPT !.slot = p_res_out] IN
    /\ ~crashed
    /\ IF files[h].last_error = NULL
       THEN Stale(c, IF p_res_out = NULL THEN "SQLITE_IOERR_CHECKRESERVEDLOCK"
                     ELSE "SQLITE_OK", fault)
       ELSE /\ rt' = NoRoundTrip
            /\ UNCHANGED <<rc, files, heap, disk, crashed, flags_in, decoded, threads>>
            /\ IF p_res_out = NULL THEN
                   /\ last_error' = null_ptr_error
                   /\ ret' = [c EXCEPT !.status = "SQLITE_IOERR_CHECKRESERVEDLOCK"]
               ELSE
                   /\ last_error' = unset_last_error(last_error)
                   /\ ret' = [c EXCEPT !.status = "SQLITE_OK",
                                       !.out = CheckReservedLockOut(h),
                                       !.entry_err = last_error]

\* io::file_control
FileControl(h, fault) ==
    Resolved(Call("file_control", h), h, "SQLITE_NOTFOUND", <<>>, fault)

\* io::sector_size: returns 1024, not a status
SectorSize(h, fault) ==
    Resolved(Call("sector_size", h), h, "-", <<1024>>, fault)

\* io::device_characteristics: returns ATOMIC | POWERSAFE_OVERWRITE |
\* SAFE_APPEND | SEQUENTIAL, not a status
DeviceCharacteristics(h, fault) ==
    Resolved(Call("device_characteristics", h), h, "-", <<1 + 4096 + 512 + 1024>>, fault)

\* variant: the map is reported as made
ShmMap_ok(h, fault) ==
    Resolved(Call("shm_map", h), h, "SQLITE_OK", <<>>, fault)

\* io::shm_map
ShmMap(h, fault) ==
    Resolved(Call("shm_map", h), h, "SQLITE_IOERR_SHMMAP", <<>>, fault)

\* io::shm_lock
ShmLock(h, fault) ==
    Resolved(Call("shm_lock", h), h, "SQLITE_IOERR_SHMLOCK", <<>>, fault)

\* io::shm_barrier: returns nothing and does not resolve the block
ShmBarrier(h) ==
    /\ ~crashed
    /\ ret' = Call("shm_barrier", h)
    /\ rt' = NoRoundTrip
    /\ UNCHANGED <<last_error, rc, files, heap, disk, crashed, flags_in, decoded, threads>>

\* io::shm_unmap
ShmUnmap(h, fault) ==
    Resolved(Call("shm_unmap", h), h, "SQLITE_OK", <<>>, fault)

\* io::mem_fetch
MemFetch(h, fault) ==
    Resolved(Call("mem_fetch", h), h, "SQLITE_ERROR", <<>>, fault)

\* io::mem_unfetch
MemUnfetch(h, fault) ==
    Resolved(Call("mem_unfetch", h), h, "SQLITE_OK", <<>>, fault)

\* an output slot the host passes: null or the address of its variable
Slots == {NULL, 1}

\* the blocks the host calls file entries on: those that hold an open file
\* and, when the host breaks the contract (w.misuse), those it has closed
Callable(w) ==
    {h \in w.handles : IsOpen(h) \/ (w.misuse /\ files[h].pMethods # NULL)}

\* The entry points the host calls.  w names what the host works with: its
\* handles, paths and flags, the offsets, lengths, written bytes and sizes of
\* its I/O (a write never makes a file larger than w.max), and what the
\* application does: vfs_inj in Vfs::open and the access queries, del_inj in
\* Vfs::delete, rw_inj in read and write, file_inj in truncate, flush and
\* file_size; w.faults are the outcomes of an access through a null pointer.
Host(w) ==
    \/ \E pf \in w.handles \cup {NULL}, z \in w.paths, fl \in w.flags, inj \in w.vfs_inj :
           Open(pf, z, fl, inj)
    \/ \E z \in w.paths, inj \in w.del_inj : Delete(z, inj)
    \/ \E z \in w.paths, fv \in AccessFlavors, p \in Slots, inj \in w.vfs_inj :
           Access(z, fv, p, inj)
    \/ \E n \in BufSizes : GetLastError(n)
    \/ \E h \in Callable(w), f \in w.faults : Close(h, f)
    \/ \E h \in Callable(w), o \in w.offsets, n \in w.lengths, inj \in w.rw_inj,
          f \in w.faults :
           Read(h, o, n, inj, f)
    \/ \E h \in Callable(w), o \in w.offsets, d \in w.data, inj \in w.rw_inj,
          f \in w.faults :
           /\ o + Len(d) <= w.max
           /\ Write(h, o, d, inj, f)
    \/ \E h \in Callable(w), n \in 0..w.max, inj \in w.file_inj, f \in w.faults :
           Truncate(h, n, inj, f)
    \/ \E h \in Callable(w), inj \in w.file_inj, f \in w.faults : Sync(h, inj, f)
    \/ \E h \in Callable(w), p \in Slots, inj \in w.file_inj, f \in w.faults :
           FileSize(h, p, inj, f)

\* One handle, an application that can fail every call, files of at most one
\* byte.
Next ==
    Host([handles |-> {1}, paths |-> {PathA, PathBad}, flags |-> OpenFlags,
          vfs_inj |-> {NoInjection, Fail(ErrNul)},
          del_inj |-> {NoInjection, Fail(ErrNul), Fail(ErrNotFound)},
          rw_inj |-> {NoInjection, Fail(ErrNul), Fail(ErrEof), SeekFail(ErrEof),
                      SeekElsewhere},
          file_inj |-> {NoInjection, Fail(ErrNul)},
          offsets |-> 0..1, lengths |-> 0..1, data |-> Strings({1}, 1), max |-> 1,
          misuse |-> FALSE, faults |-> {FALSE}])

Spec == Init /\ [][Next]_vars

\* Two handles under one registration.
NextShared ==
    Host([handles |-> Handles, paths |-> {PathA, PathBad}, flags |-> OpenFlags,
          vfs_inj |-> {NoInjection}, del_inj |-> {NoInjection},
          rw_inj |-> {NoInjection, SeekFail(ErrEof)},
          file_inj |-> {NoInjection},
          offsets |-> {0}, lengths |-> {1}, data |-> {<<1>>}, max |-> 1,
          misuse |-> FALSE, faults |-> {FALSE}])

SpecShared == Init /\ [][NextShared]_vars

\* One handle on one path with an application that injects no failure: the
\* files are byte arrays of at most MaxSize bytes.
NextIO ==
    Host([handles |-> {1}, paths |-> {PathA},
          flags |-> {SQLITE_OPEN_MAIN_DB + SQLITE_OPEN_READWRITE + SQLITE_OPEN_CREATE,
                     SQLITE_OPEN_MAIN_DB + SQLITE_OPEN_READONLY},
          vfs_inj |-> {NoInjection}, del_inj |-> {NoInjection},
          rw_inj |-> {NoInjection}, file_inj |-> {NoInjection},
          offsets |-> 0..MaxOff, lengths |-> 0..MaxLen,
          data |-> Strings({1, 2}, MaxLen), max |-> MaxSize,
          misuse |-> FALSE, faults |-> {FALSE}])

SpecIO == Init /\ [][NextIO]_vars

\* The other entry points of the two tables.
HostMore(w) ==
    \/ \E n \in PathLens, c \in Capacities : FullPathname(LongPath(n), c)
    \/ \E now \in Clock : CurrentTime(now)
    \/ \E now \in Clock : CurrentTimeInt64(now)
    \/ \E h \in Callable(w), l \in LockLevels, f \in w.faults : Lock(h, l, f)
    \/ \E h \in Callable(w), l \in LockLevels, f \in w.faults : Unlock(h, l, f)
    \/ \E h \in Callable(w), p \in Slots, f \in w.faults : CheckReservedLock(h, p, f)
    \/ \E h \in Callable(w), f \in w.faults : FileControl(h, f)
    \/ \E h \in Callable(w), f \in w.faults : SectorSize(h, f)
    \/ \E h \in Callable(w), f \in w.faults : DeviceCharacteristics(h, f)
    \/ \E h \in Callable(w), f \in w.faults : ShmMap(h, f)
    \/ \E h \in Callable(w), f \in w.faults : ShmLock(h, f)
    \/ \E h \in Callable(w) : ShmBarrier(h)
    \/ \E h \in Callable(w), f \in w.faults : ShmUnmap(h, f)
    \/ \E h \in Callable(w), f \in w.faults : MemFetch(h, f)
    \/ \E h \in Callable(w), f \in w.faults : MemUnfetch(h, f)

\* Every entry point, one handle, an application that can fail its calls.
HostAll ==
    [handles |-> {1}, paths |-> {PathA},
     flags |-> {SQLITE_OPEN_MAIN_DB + SQLITE_OPEN_READWRITE + SQLITE_OPEN_CREATE,
                SQLITE_OPEN_MAIN_DB + SQLITE_OPEN_EXCLUSIVE},
     vfs_inj |-> {NoInjection, Fail(ErrDenied)},
     del_inj |-> {NoInjection, Fail(ErrDenied)},
     rw_inj |-> {NoInjection, Fail(ErrDenied), SeekFail(ErrDenied)},
     file_inj |-> {NoInjection, Fail(ErrDenied)},
     offsets |-> {0}, lengths |-> 0..1, data |-> Strings({1}, 1), max |-> 1,
     misuse |-> FALSE, faults |-> {FALSE}]

NextAll == Host(HostAll) \/ HostMore(HostAll)

SpecAll == Init /\ [][NextAll]_vars

\* Two handles opened on one path, locked and written by turns.
HostLocks == [handles |-> Handles, misuse |-> FALSE]

NextLocks ==
    \/ \E pf \in Handles :
           Open(pf, PathA,
                SQLITE_OPEN_MAIN_DB + SQLITE_OPEN_READWRITE + SQLITE_OPEN_CREATE,
                NoInjection)
    \/ \E h \in Callable(HostLocks) : Close(h, FALSE)
    \/ \E h \in Callable(HostLocks), l \in LockLevels : Lock(h, l, FALSE)
    \/ \E h \in Callable(HostLocks), l \in LockLevels : Unlock(h, l, FALSE)
    \/ \E h \in Callable(HostLocks), p \in Slots : CheckReservedLock(h, p, FALSE)
    \/ \E h \in Callable(HostLocks), d \in Strings({1, 2}, 1) :
           Write(h, 0, d, NoInjection, FALSE)

SpecLocks == Init /\ [][NextLocks]_vars

\* Two handles under one registration, opened on two paths, every file entry.
HostPair ==
    [handles |-> Handles, paths |-> {PathA, PathB},
     flags |-> {SQLITE_OPEN_MAIN_DB + SQLITE_OPEN_READWRITE + SQLITE_OPEN_CREATE},
     vfs_inj |-> {NoInjection}, del_inj |-> {NoInjection},
     rw_inj |-> {NoInjection, Fail(ErrDenied)},
     file_inj |-> {NoInjection, Fail(ErrDenied)},
     offsets |-> {0}, lengths |-> {1}, data |-> {<<1>>}, max |-> 1,
     misuse |-> FALSE, faults |-> {FALSE}]

NextPair == Host(HostPair) \/ HostMore(HostPair)

SpecPair == Init /\ [][NextPair]_vars

\* A host that breaks the contract: it goes on calling file entries on a
\* block after closing it.
HostMisuse ==
    [handles |-> {1}, paths |-> {PathA},
     flags |-> {SQLITE_OPEN_MAIN_DB + SQLITE_OPEN_READWRITE + SQLITE_OPEN_CREATE,
                SQLITE_OPEN_MAIN_DB + SQLITE_OPEN_EXCLUSIVE},
     vfs_inj |-> {NoInjection, Fail(ErrDenied)},
     del_inj |-> {NoInjection, Fail(ErrDenied)},
     rw_inj |-> {NoInjection, SeekFail(ErrDenied)},
     file_inj |-> {NoInjection, Fail(ErrDenied)},
     offsets |-> {0}, lengths |-> {1}, data |-> {<<1>>}, max |-> 1,
     misuse |-> TRUE, faults |-> BOOLEAN]

NextMisuse == Host(HostMisuse) \/ HostMore(HostMisuse)

SpecMisuse == Init /\ [][NextMisuse]_vars

(***************************************************************************)
(* Drop for FileState: the block is discarded as a Rust value.             *)
(***************************************************************************)
\* what drop releases: the CString, then the boxed File
DropFrees(b) == <<b.name, b.file>>

\* the block was dropped while open: its fields point at released memory
Dangling(h) == IsOpen(h) /\ ~heap[files[h].file].live

\* Drop for FileState.  It releases whatever the three fields hold and leaves
\* them as they are.  On a block whose fields are null, CString::from_raw,
\* Box::from_raw and Rc::from_raw go through null pointers: the behaviour is
\* undefined, the process stops on the fault or the accesses go unnoticed.
Drop(h, fault) ==
    LET c == Call("drop", h) IN
    /\ ~crashed
    /\ rt' = NoRoundTrip
    /\ IF files[h].name = NULL /\ files[h].file = NULL /\ files[h].last_error = NULL
       THEN /\ crashed' = fault
            /\ ret' = [c EXCEPT !.status = IF fault THEN "fault" ELSE "-", !.ub = TRUE]
            /\ UNCHANGED <<last_error, rc, files, heap, disk, flags_in, decoded, threads>>
       ELSE /\ heap' = FreeAll(heap, DropFrees(files[h]))
            /\ rc' = rc - 1
            /\ ret' = [c EXCEPT !.freed = DropFrees(files[h])]
            /\ UNCHANGED <<last_error, files, disk, crashed, flags_in, decoded, threads>>

\* Blocks are opened, written, closed and dropped; a dropped block is not
\* used again and nothing is opened once a block dangles.
NextDrop ==
    \/ \E pf \in Handles, z \in {PathA, PathB} :
           /\ \A h \in Handles : ~Dangling(h)
           /\ Open(pf, z, SQLITE_OPEN_MAIN_DB + SQLITE_OPEN_READWRITE + SQLITE_OPEN_CREATE,
                   NoInjection)
    \/ \E h \in Handles : IsOpen(h) /\ ~Dangling(h) /\ Close(h, FALSE)
    \/ \E h \in Handles, d \in Strings({1}, 1) :
           IsOpen(h) /\ ~Dangling(h) /\ Write(h, 0, d, NoInjection, FALSE)
    \/ \E h \in Handles, f \in BOOLEAN :
           /\ files[h].pMethods # NULL
           /\ ~Dangling(h)
           /\ Drop(h, f)

SpecDrop == Init /\ [][NextDrop]_vars

(***************************************************************************)
(* Two host threads, each on its own handle of the one registration.  The  *)
(* Channel is an Rc<Cell<..>> with no synchronization: a thread's entry    *)
(* point is a sequence of accesses to the Cell (take on entry, set on      *)
(* failure, take in get_last_error), and the accesses of the two threads   *)
(* interleave in every order.                                              *)
(***************************************************************************)
Threads == {1, 2}

\* what the flush of thread t's File returns: success or one of its failures
FlushResults(t) == IF t = 1 THEN {NoError, ErrExists, ErrNul} ELSE {NoError, ErrDenied}

\* a thread outside any call
Idle == [pc |-> "idle", err |-> NoError, status |-> "-", out |-> <<>>, len |-> 0,
         alone |-> TRUE]

\* the other thread has run: no call in progress was made alone
Disturb(ts, t) == [u \in Threads |-> IF u = t THEN ts[u] ELSE [ts[u] EXCEPT !.alone = FALSE]]

\* the main thread opens a file on each block before the threads start
SetupOpen ==
    /\ threads = NoThreads
    /\ \E pf \in Handles :
           Open(pf, IF pf = 1 THEN PathA ELSE PathB,
                SQLITE_OPEN_MAIN_DB + SQLITE_OPEN_READWRITE + SQLITE_OPEN_CREATE,
                NoInjection)

\* the host starts one thread per open handle
StartThreads ==
    /\ threads = NoThreads
    /\ \A h \in Handles : IsOpen(h)
    /\ threads' = [t \in Threads |-> Idle]
    /\ UNCHANGED <<last_error, rc, files, heap, disk, ret, rt, crashed, flags_in, decoded>>

\* io::sync on thread t's handle, up to file_state: the Channel is emptied
SyncEnter(t, e) ==
    /\ threads # NoThreads
    /\ threads[t].pc \in {"idle", "queried"}
    /\ IsOpen(t)
    /\ last_error' = unset_last_error(last_error)
    /\ threads' = Disturb([threads EXCEPT ![t] = [Idle EXCEPT !.pc = "entered", !.err = e]], t)
    /\ UNCHANGED <<rc, files, heap, disk, ret, rt, crashed, flags_in, decoded>>

\* io::sync from file.flush() to its return: a failure is deposited
SyncFlush(t) ==
    /\ threads # NoThreads
    /\ threads[t].pc = "entered"
    /\ last_error' = IF threads[t].err = NoError THEN last_error
                     ELSE set_last_error(last_error, threads[t].err)
    /\ threads' = Disturb([threads EXCEPT
                              ![t].pc = IF threads[t].err = NoError THEN "idle"
                                        ELSE "failed",
                              ![t].status = IF threads[t].err = NoError THEN "SQLITE_OK"
                                            ELSE "SQLITE_IOERR_FSYNC"], t)
    /\ UNCHANGED <<rc, files, heap, disk, ret, rt, crashed, flags_in, decoded>>

\* vfs::get_last_error called by thread t after its sync failed
ThreadGetLastError(t, n_byte) ==
    /\ threads # NoThreads
    /\ threads[t].pc = "failed"
    /\ last_error' = LastErrorAfterGet(last_error, n_byte)
    /\ threads' = Disturb([threads EXCEPT
                              ![t].pc = "queried",
                              ![t].len = n_byte,
                              ![t].status = GetLastErrorStatus(last_error, n_byte),
                              ![t].out = GetLastErrorOut(last_error, n_byte)], t)
    /\ UNCHANGED <<rc, files, heap, disk, ret, rt, crashed, flags_in, decoded>>

NextThreads ==
    \/ SetupOpen
    \/ StartThreads
    \/ \E t \in Threads : \E e \in FlushResults(t) : SyncEnter(t, e)
    \/ \E t \in Threads : SyncFlush(t)
    \/ \E t \in Threads, n \in BufSizes : ThreadGetLastError(t, n)

SpecThreads == Init /\ [][NextThreads]_vars

(***************************************************************************)
(* Registration.                                                           *)
(***************************************************************************)
\* the names the application registers under: "v", "v\0f" and ""
VfsNames == {<<118>>, <<118, 0, 102>>, <<>>}

\* what sqlite3_vfs_register returns
HostResults == {"SQLITE_OK", "SQLITE_NOMEM"}

\* size_of::<FileState<F>>(): base (one pointer), name, file, last_error
size_of_FileState == 8 + 8 + 8 + 8

\* variant: the size of the sqlite3_file base alone
VfsTable_base_size(name) ==
    [iVersion |-> 3, szOsFile |-> 8, mxPathname |-> MAX_PATH_LENGTH,
     zName |-> to_bytes_with_nul(name),
     pAppData |-> [vfs |-> "vfs", io_methods |-> [iVersion |-> 3, at |-> IO_METHODS],
                   last_error |-> CHAN]]

\* the sqlite3_vfs register hands to the host, pAppData shown as the State
VfsTable(name) ==
    [iVersion |-> 3, szOsFile |-> size_of_FileState, mxPathname |-> MAX_PATH_LENGTH,
     zName |-> to_bytes_with_nul(name),
     pAppData |-> [vfs |-> "vfs", io_methods |-> [iVersion |-> 3, at |-> IO_METHODS],
                   last_error |-> CHAN]]

\* before register: no State, no Channel
InitRegister ==
    /\ last_error = NoError
    /\ rc = 0
    /\ files = [h \in Handles |-> ZeroBlock]
    /\ heap = [a \in Addrs |-> FreeSlot]
    /\ disk = [p \in {} |-> <<>>]
    /\ ret = Call("-", 0)
    /\ rt = NoRoundTrip
    /\ crashed = FALSE
    /\ flags_in = 0
    /\ decoded = NotDecoded
    /\ threads = NoThreads

\* register, called while no registration has been made; nth is 2 when the
\* call before was a register refused for its name
Register(name, result) ==
    LET c == [Call("register", 0) EXCEPT
                 !.path = name,
                 !.nth = IF ret.op = "register" /\ ret.status = "Err(Nul)"
                         THEN 2 ELSE 1] IN
    /\ ~crashed
    /\ rc = 0
    /\ rt' = NoRoundTrip
    /\ UNCHANGED <<files, heap, disk, crashed, flags_in, decoded, threads>>
    /\ IF ~CString_new_ok(name) THEN
           /\ ret' = [c EXCEPT !.status = "Err(Nul)"]
           /\ UNCHANGED <<last_error, rc>>
       ELSE
           /\ last_error' = NoError
           /\ rc' = 1
           /\ ret' = [c EXCEPT !.calls = <<"sqlite3_vfs_register">>,
                               !.out = <<VfsTable(name)>>,
                               !.status = IF result = "SQLITE_OK" THEN "Ok"
                                          ELSE "Err(Register)"]

\* the host calls the entry points of a table it accepted
Registered == rc >= 1 /\ ~(ret.op = "register" /\ ret.status # "Ok")

NextRegister ==
    \/ \E name \in VfsNames, result \in HostResults : Register(name, result)
    \/ Registered /\ Host(HostAll)

SpecRegister == InitRegister /\ [][NextRegister]_vars

(***************************************************************************)
(* The decoders on every flags word over the bits they test and one bit    *)
(* they do not (64, SQLITE_OPEN_URI), and open called with that word.      *)
(***************************************************************************)
DecodeBits ==
    { SQLITE_OPEN_READONLY, SQLITE_OPEN_READWRITE, SQLITE_OPEN_CREATE,
      SQLITE_OPEN_DELETEONCLOSE, SQLITE_OPEN_EXCLUSIVE, 64,
      SQLITE_OPEN_MAIN_DB, SQLITE_OPEN_TEMP_DB, SQLITE_OPEN_TRANSIENT_DB,
      SQLITE_OPEN_MAIN_JOURNAL, SQLITE_OPEN_TEMP_JOURNAL, SQLITE_OPEN_SUBJOURNAL,
      SQLITE_OPEN_SUPER_JOURNAL, SQLITE_OPEN_WAL }

RECURSIVE Sum(_)
Sum(S) == IF S = {} THEN 0 ELSE LET x == CHOOSE y \in S : TRUE IN x + Sum(S \ {x})

InitDecode ==
    /\ last_error = NoError
    /\ rc = 1
    /\ files = [h \in Handles |-> ZeroBlock]
    /\ heap = [a \in Addrs |-> FreeSlot]
    /\ disk = [p \in {} |-> <<>>]
    /\ ret = Call("register", 0)
    /\ rt = NoRoundTrip
    /\ crashed = FALSE
    /\ \E S \in SUBSET DecodeBits : flags_in = Sum(S)
    /\ decoded = NotDecoded
    /\ threads = NoThreads

\* the three from_flags on the flags word
Decode ==
    /\ decoded = NotDecoded
    /\ decoded' = [kind |-> OpenKind_from_flags(flags_in),
                   access |-> OpenAccess_from_flags(flags_in),
                   opts |-> OpenOptions_from_flags(flags_in)]
    /\ UNCHANGED <<last_error, rc, files, heap, disk, ret, rt, crashed, flags_in, threads>>

\* vfs::open with the flags word, on the first block
OpenDecoded == Open(1, PathA, flags_in, NoInjection)

NextDecode == Decode \/ OpenDecoded

SpecDecode == InitDecode /\ [][NextDecode]_vars

(***************************************************************************)
(* Properties.                                                             *)
(***************************************************************************)
\* bit is set in the flags word
HasBit(flags, bit) == (flags \div bit) % 2 = 1

\* the text has a nul byte in it
NulInside(text) == \E i \in DOMAIN text : text[i] = 0

\* C1, as the specification states it: whenever get_last_error is called with an
\* error in the Channel and a buffer that holds the message and its terminator,
\* it returns OK with exactly that message; a get_last_error right after another
\* returns OK with no message.
C1_AsStated ==
    [][/\ (ret'.op = "get_last_error" /\ last_error # NoError
             /\ Len(last_error.msg) + 1 <= ret'.len)
          => (ret'.status = "SQLITE_OK" /\ ret'.out = last_error.msg \o <<0>>)
       /\ (ret.op = "get_last_error" /\ ret'.op = "get_last_error")
          => (ret'.status = "SQLITE_OK" /\ ret'.out = <<>>)]_vars

\* C1, amended: whenever get_last_error is called with an error in the Channel
\* whose message holds no nul byte and a buffer that holds the message and its
\* terminator, it returns OK with exactly that message and empties the Channel;
\* a get_last_error right after another returns OK with no message.
C1_DeliveredOnce ==
    [][/\ (ret'.op = "get_last_error" /\ last_error # NoError
             /\ ~NulInside(last_error.msg) /\ Len(last_error.msg) + 1 <= ret'.len)
          => (/\ ret'.status = "SQLITE_OK"
              /\ ret'.out = last_error.msg \o <<0>>
              /\ last_error' = NoError)
       /\ (ret.op = "get_last_error" /\ ret'.op = "get_last_error")
          => (ret'.status = "SQLITE_OK" /\ ret'.out = <<>> /\ last_error' = NoError)]_vars

\* a second get_last_error right after one that delivered a message
C1_Witness ==
    ret.op = "get_last_error" /\ ret.nth = 2 /\ ret.status = "SQLITE_OK" /\ ret.out = <<>>

\* number of times a occurs in the sequence q
Count(q, a) == Cardinality({i \in DOMAIN q : q[i] = a})

\* C2: a close that returns OK releases the path string and the File instance
\* that the block held, each live until then and each exactly once, releases
\* nothing else, sets the block's path, File and Error Channel fields to null
\* and gives up exactly one reference to the Error Channel.
C2_ReleasedOnce ==
    [][(ret'.op = "close" /\ ret'.status = "SQLITE_OK") =>
          LET b == files[ret'.h] IN
          /\ b.name # NULL /\ b.file # NULL /\ b.name # b.file
          /\ heap[b.name].live /\ heap[b.name].kind = "CString"
          /\ heap[b.file].live /\ heap[b.file].kind = "File"
          /\ ~heap'[b.name].live /\ ~heap'[b.file].live
          /\ Len(ret'.freed) = 2
          /\ Count(ret'.freed, b.name) = 1 /\ Count(ret'.freed, b.file) = 1
          /\ \A a \in Addrs \ {b.name, b.file} : heap'[a] = heap[a]
          /\ files'[ret'.h].name = NULL
          /\ files'[ret'.h].file = NULL
          /\ files'[ret'.h].last_error = NULL
          /\ \A h \in Handles \ {ret'.h} : files'[h] = files[h]
          /\ rc' = rc - 1]_vars

\* a close has returned OK while the other handle is open
C2_Witness ==
    /\ ret.op = "close" /\ ret.status = "SQLITE_OK"
    /\ \E h \in Handles \ {ret.h} : files[h].file # NULL

\* C3: in every state each block's File field and path field are both null or
\* both set.
C3_BothOrNeither ==
    \A h \in Handles : (files[h].file = NULL) <=> (files[h].name = NULL)

\* an open has just failed while one block is open and the other was closed
C3_Witness ==
    /\ ret.op = "open" /\ ret.status = "SQLITE_CANTOPEN"
    /\ \E h \in Handles : files[h].file # NULL /\ files[h].name # NULL
    /\ \E h \in Handles : files[h].pMethods # NULL /\ files[h].file = NULL

\* the call r ended with a failure of a Vfs or File call, other than not-found
\* on delete and end-of-data on read
CapFailure(r) ==
    /\ r.cap_err # NoError
    /\ ~(r.op = "delete" /\ r.cap_err.kind = "NotFound")
    /\ ~(r.op = "read" /\ r.calls = <<"seek", "read_exact">>
           /\ r.cap_err.kind = "UnexpectedEof")

StoredBytes == disk[heap[files[ret.h].file].bytes]

\* C5, as the specification states it: a read of len bytes at off on a file
\* that holds fewer than off + len bytes returns the short-read status and
\* leaves the Channel empty.
C5_AsStated ==
    (ret.op = "read" /\ Len(StoredBytes) < ret.off + ret.len)
    => (ret.status = "SQLITE_IOERR_SHORT_READ" /\ last_error = NoError)

\* C5, amended: a read of len >= 1 bytes at off on a file that holds fewer than
\* off + len bytes returns the short-read status and leaves the Channel empty.
C5_ShortRead ==
    (ret.op = "read" /\ ret.len >= 1 /\ Len(StoredBytes) < ret.off + ret.len)
    => (ret.status = "SQLITE_IOERR_SHORT_READ" /\ last_error = NoError)

\* a read that starts past the end of a file that is not empty was cut short
C5_Witness ==
    /\ ret.op = "read" /\ ret.len >= 1
    /\ Len(StoredBytes) >= 1 /\ ret.off >= Len(StoredBytes)
    /\ ret.status = "SQLITE_IOERR_SHORT_READ"

\* C6: a delete whose provider call reports not-found returns OK, leaves the
\* Channel empty and the storage as it was; a delete of a path that is not
\* stored returns OK; a delete whose provider call fails otherwise returns the
\* delete-failed status with that error in the Channel.
C6_IdempotentDelete ==
    [][ret'.op = "delete" =>
          /\ ret'.cap_err.kind = "NotFound"
             => (ret'.status = "SQLITE_OK" /\ last_error' = NoError /\ disk' = disk)
          /\ (ret'.inj = "none" /\ to_string_lossy(ret'.path) \notin DOMAIN disk)
             => (ret'.status = "SQLITE_OK" /\ last_error' = NoError /\ disk' = disk)
          /\ (ret'.cap_err # NoError /\ ret'.cap_err.kind # "NotFound")
             => (ret'.status = "SQLITE_DELETE" /\ last_error' = ret'.cap_err)]_vars

\* the same path, not stored, was deleted twice in a row
C6_Witness ==
    /\ ret.op = "delete" /\ ret.nth = 2 /\ ret.inj = "none"
    /\ ret.cap_err.kind = "NotFound" /\ ret.status = "SQLITE_OK"

\* C7: on a handle opened with Create, after a write that returned OK, a sync
\* and a read of as many bytes at the same offset, one right after the other,
\* the read returns OK and the bytes written.
C7_RoundTrip ==
    rt.stage = 3 => (ret.status = "SQLITE_OK" /\ ret.out = rt.data)

\* a round trip of bytes written past the start of the file has completed
C7_Witness ==
    rt.stage = 3 /\ rt.off > 0 /\ rt.data # <<>> /\ ret.op = "read"

\* the kinds in the order of the specification, each with its bit
KindOrder ==
    << <<SQLITE_OPEN_MAIN_DB, "MainDb">>, <<SQLITE_OPEN_MAIN_JOURNAL, "MainJournal">>,
       <<SQLITE_OPEN_TEMP_DB, "TempDb">>, <<SQLITE_OPEN_TEMP_JOURNAL, "TempJournal">>,
       <<SQLITE_OPEN_TRANSIENT_DB, "TransientDb">>, <<SQLITE_OPEN_SUBJOURNAL, "SubJournal">>,
       <<SQLITE_OPEN_SUPER_JOURNAL, "SuperJournal">>, <<SQLITE_OPEN_WAL, "Wal">> >>

\* the kind of the first bit of KindOrder set in flags, None when none is
FirstKind(flags) ==
    LET S == {i \in DOMAIN KindOrder : HasBit(flags, KindOrder[i][1])} IN
    IF S = {} THEN None
    ELSE KindOrder[CHOOSE i \in S : \A j \in S : i <= j][2]

\* C8: for every flags word the kind decode returns the kind of the first bit
\* set in the order MainDb, MainJournal, TempDb, TempJournal, TransientDb,
\* SubJournal, SuperJournal, Wal, and fails exactly when none of them is set.
C8_FirstKindWins ==
    decoded # NotDecoded => decoded.kind = FirstKind(flags_in)

\* MainDb was decoded from a word that also has the MainJournal bit and others
C8_Witness ==
    /\ decoded.kind = "MainDb"
    /\ HasBit(flags_in, SQLITE_OPEN_MAIN_JOURNAL)
    /\ HasBit(flags_in, SQLITE_OPEN_WAL)
    /\ HasBit(flags_in, SQLITE_OPEN_DELETEONCLOSE)

\* the access mode the specification gives a flags word
AccessOf(flags) ==
    IF HasBit(flags, SQLITE_OPEN_CREATE) /\ HasBit(flags, SQLITE_OPEN_EXCLUSIVE)
        THEN "CreateNew"
    ELSE IF HasBit(flags, SQLITE_OPEN_CREATE) THEN "Create"
    ELSE IF HasBit(flags, SQLITE_OPEN_READWRITE) THEN "Write"
    ELSE IF HasBit(flags, SQLITE_OPEN_READONLY) THEN "Read"
    ELSE None

\* C9: for every flags word the access decode gives CreateNew when create and
\* exclusive are set, else Create when create is set, else Write when
\* read-write is set, else Read when read-only is set, and fails otherwise.
C9_AccessMode ==
    decoded # NotDecoded => decoded.access = AccessOf(flags_in)

\* the decode failed on a word whose only access bit is exclusive
C9_Witness ==
    /\ decoded # NotDecoded /\ decoded.access = None
    /\ HasBit(flags_in, SQLITE_OPEN_EXCLUSIVE)

\* C10: an open whose flags fail the kind decode or the access decode returns
\* cant-open without calling the provider's open and leaves the blocks, the
\* heap and the storage as they were; every other open calls the provider's
\* open with the decoded kind and access and with delete_on_close equal to the
\* delete-on-close bit; the overall decode succeeds exactly when both
\* sub-decodes do.
C10_UndecodableFlags ==
    [][/\ ret'.op = "open" =>
            IF FirstKind(flags_in) = None \/ AccessOf(flags_in) = None
            THEN /\ ret'.status = "SQLITE_CANTOPEN"
                 /\ ret'.calls = <<>>
                 /\ files' = files /\ heap' = heap /\ disk' = disk /\ rc' = rc
            ELSE /\ ret'.calls = <<"open">>
                 /\ ret'.opts = [kind |-> FirstKind(flags_in),
                                 access |-> AccessOf(flags_in),
                                 delete_on_close |->
                                     HasBit(flags_in, SQLITE_OPEN_DELETEONCLOSE)]
       /\ decoded' # NotDecoded =>
            /\ (decoded'.opts # NoOpts)
               <=> (decoded'.kind # None /\ decoded'.access # None)
            /\ decoded'.opts # NoOpts =>
                 decoded'.opts.delete_on_close
                     = HasBit(flags_in, SQLITE_OPEN_DELETEONCLOSE)]_vars

\* an open was refused for a word with a kind bit and no access bit
C10_Witness ==
    /\ ret.op = "open" /\ ret.status = "SQLITE_CANTOPEN" /\ ret.calls = <<>>
    /\ FirstKind(flags_in) # None /\ AccessOf(flags_in) = None

\* the provider's open was called and succeeded in the call r
ProviderOpened(r) == r.calls = <<"open">> /\ r.cap_err = NoError

\* C11: an open with decodable flags and a non-null block: when the provider's
\* open succeeds it returns OK with the Channel empty and the block holding the
\* file-dispatch table, a copy of the path passed in, a File instance and the
\* Channel; when the provider's open fails it returns cant-open with the
\* provider's error in the Channel and the block as it was.
C11_OpenFillsBlock ==
    [][(ret'.op = "open" /\ ret'.calls = <<"open">> /\ ret'.h # NULL) =>
          IF ProviderOpened(ret')
          THEN /\ ret'.status = "SQLITE_OK"
               /\ last_error' = NoError
               /\ files'[ret'.h].pMethods = IO_METHODS
               /\ files'[ret'.h].name # NULL
               /\ heap'[files'[ret'.h].name].live
               /\ heap'[files'[ret'.h].name].bytes = ret'.path
               /\ files'[ret'.h].file # NULL
               /\ heap'[files'[ret'.h].file].live
               /\ heap'[files'[ret'.h].file].kind = "File"
               /\ files'[ret'.h].last_error = CHAN
          ELSE /\ ret'.status = "SQLITE_CANTOPEN"
               /\ last_error' = ret'.cap_err
               /\ files' = files]_vars

\* C13: no entry point panics or aborts the process: every call ends by
\* returning a status to the host.
C13_NoPanic ==
    ~crashed /\ ret.status # "panic"

\* the result the reference provider gives the query of an access call
ProviderTruth(r, disk0) ==
    IF r.flags = SQLITE_ACCESS_EXISTS THEN to_string_lossy(r.path) \in DOMAIN disk0
    ELSE TRUE

\* C14: access makes exactly the provider query of its flavor (exists, access
\* for reading, access for writing); when the query succeeds and the slot is
\* not null it returns OK with 1 or 0 in the slot; for any other flavor it
\* returns the I/O-access error, calls nothing and writes nothing; a provider
\* failure or a null slot returns the I/O-access error with the error in the
\* Channel.
C14_AccessQuery ==
    [][ret'.op = "access" =>
          IF ret'.flags \notin {SQLITE_ACCESS_EXISTS, SQLITE_ACCESS_READ,
                                SQLITE_ACCESS_READWRITE}
          THEN /\ ret'.status = "SQLITE_IOERR_ACCESS"
               /\ ret'.calls = <<>> /\ ret'.out = <<>>
          ELSE /\ ret'.calls = << IF ret'.flags = SQLITE_ACCESS_EXISTS THEN "exists"
                                  ELSE IF ret'.flags = SQLITE_ACCESS_READ
                                      THEN "access_read"
                                  ELSE "access_write" >>
               /\ (ret'.cap_err = NoError /\ ret'.slot # NULL) =>
                    /\ ret'.status = "SQLITE_OK"
                    /\ ret'.out = << IF ProviderTruth(ret', disk) THEN 1 ELSE 0 >>
                    /\ last_error' = NoError
               /\ ret'.cap_err # NoError =>
                    /\ ret'.status = "SQLITE_IOERR_ACCESS"
                    /\ ret'.out = <<>>
                    /\ last_error' = ret'.cap_err
               /\ (ret'.cap_err = NoError /\ ret'.slot = NULL) =>
                    /\ ret'.status = "SQLITE_IOERR_ACCESS"
                    /\ last_error' = null_ptr_error]_vars

\* the exists flavor has answered 1 for a stored path
C14_Witness ==
    /\ ret.op = "access" /\ ret.flags = SQLITE_ACCESS_EXISTS
    /\ ret.status = "SQLITE_OK" /\ ret.out = <<1>>
    /\ ret.calls = <<"exists">>

\* C18: a write on an open handle that returns the write-error status leaves
\* an error in the Channel.
C18_WriteErrorDeposited ==
    (ret.op = "write" /\ ret.status = "SQLITE_IOERR_WRITE") => last_error # NoError

\* C12: full_pathname succeeds exactly when the path with its terminator is at
\* most the capacity of the caller's buffer and at most 512 bytes; on success
\* the buffer holds the path and its terminator; on failure it returns an
\* error status and nothing was written to the buffer.
C12_FullPathname ==
    ret.op = "full_pathname" =>
        IF Len(ret.path) + 1 <= ret.len /\ Len(ret.path) + 1 <= 512
        THEN ret.status = "SQLITE_OK" /\ ret.out = ret.path \o <<0>>
        ELSE ret.status = "SQLITE_ERROR" /\ ret.out = <<>>

\* a path of 512 bytes with its terminator was copied to a larger buffer
C12_Witness ==
    /\ ret.op = "full_pathname" /\ Len(ret.path) + 1 = 512 /\ ret.len > 512
    /\ ret.status = "SQLITE_OK" /\ Len(ret.out) = 512

\* the entries that empty the Channel when they are called
Clearing(r) == r.op \notin {"register", "get_last_error", "shm_barrier"}

\* the error the call r itself deposits, NoError when it deposits none
OwnError(r) ==
    IF r.op = "open" /\ r.calls = <<>> THEN InvalidFlagsError
    ELSE IF r.cap_err # NoError THEN
        (IF (r.op = "delete" /\ r.cap_err.kind = "NotFound")
            \/ (r.op = "read" /\ r.calls = <<"seek", "read_exact">>
                  /\ r.cap_err.kind = "UnexpectedEof")
         THEN NoError ELSE r.cap_err)
    ELSE IF r.op = "open" /\ r.h = NULL THEN null_ptr_error
    ELSE IF r.op \in {"access", "file_size", "check_reserved_lock"}
            /\ r.slot = NULL
            /\ (r.op = "access" => r.calls # <<>>) THEN null_ptr_error
    ELSE NoError

\* C17: an entry that resolves the registration or an open handle (every one
\* but get_last_error and shm_barrier) leaves in the Channel only what it
\* deposits itself, whatever the Channel held before: when it returns OK the
\* Channel is empty, and a get_last_error right after it reports no message.
C17_NoStaleError ==
    [][/\ Clearing(ret') =>
            /\ last_error' = OwnError(ret')
            /\ ret'.status = "SQLITE_OK" => last_error' = NoError
       /\ (Clearing(ret) /\ ret.status = "SQLITE_OK" /\ ret'.op = "get_last_error")
            => (ret'.status = "SQLITE_OK" /\ ret'.out = <<>>)]_vars

\* a lock was called with an error of an earlier call in the Channel, returned
\* OK and left the Channel empty
C17_Witness ==
    /\ ret.op = "lock" /\ ret.entry_err = ErrDenied
    /\ ret.status = "SQLITE_OK" /\ last_error = NoError

\* C20: on an open handle lock and unlock return OK for every level and
\* check_reserved_lock with a slot returns OK and reports not reserved, whatever
\* was locked before on this or another handle; none of them changes a block,
\* the heap, the storage or the count of Channel references.
C20_LocksAlwaysGranted ==
    [][/\ ret'.op \in {"lock", "unlock"} =>
            /\ ret'.status = "SQLITE_OK"
            /\ files' = files /\ heap' = heap /\ disk' = disk /\ rc' = rc
       /\ (ret'.op = "check_reserved_lock" /\ ret'.slot # NULL) =>
            /\ ret'.status = "SQLITE_OK" /\ ret'.out = <<0>>
            /\ files' = files /\ heap' = heap /\ disk' = disk /\ rc' = rc]_vars

\* two handles open on the same path were granted the exclusive level one
\* right after the other
C20_Witness ==
    /\ ret.op = "lock" /\ ret.len = 4 /\ ret.nth = 2 /\ ret.status = "SQLITE_OK"
    /\ \A h \in Handles : files[h].file # NULL
    /\ heap[files[1].file].bytes = heap[files[2].file].bytes

\* the per-file entries that resolve their block
FileEntries ==
    {"close", "read", "write", "truncate", "sync", "file_size", "lock", "unlock",
     "check_reserved_lock", "file_control", "sector_size", "device_characteristics",
     "shm_map", "shm_lock", "shm_unmap", "mem_fetch", "mem_unfetch"}

\* C16: a per-file entry called on a block whose fields are null, because the
\* block was closed, returns a status other than OK, calls no File operation
\* and goes through no null or released pointer.
C16_ClosedBlockIsFatal ==
    [][(ret'.op \in FileEntries
          /\ files[ret'.h].file = NULL /\ files[ret'.h].name = NULL
          /\ files[ret'.h].last_error = NULL) =>
          /\ ret'.status \notin {"SQLITE_OK", "fault"}
          /\ ret'.calls = <<>>
          /\ ~ret'.ub
          /\ ~crashed']_vars

\* C15: register with a name that holds a nul byte returns an error, builds no
\* registration context and does not call the host's registration function;
\* with any other name it hands the host a table of version 3 with maximum
\* path length 512 and a per-file size of one FileState block, whose context
\* holds the provider, the file-dispatch table and an empty Channel.
C15_Register ==
    [][ret'.op = "register" =>
          IF NulInside(ret'.path)
          THEN /\ ret'.status = "Err(Nul)"
               /\ ret'.calls = <<>> /\ ret'.out = <<>>
               /\ rc' = 0 /\ rc = 0
          ELSE /\ ret'.calls = <<"sqlite3_vfs_register">>
               /\ Len(ret'.out) = 1
               /\ ret'.out[1].iVersion = 3
               /\ ret'.out[1].mxPathname = 512
               /\ ret'.out[1].szOsFile = 8 * Cardinality(DOMAIN files[1])
               /\ ret'.out[1].zName = ret'.path \o <<0>>
               /\ ret'.out[1].pAppData.vfs = "vfs"
               /\ ret'.out[1].pAppData.io_methods.at = IO_METHODS
               /\ ret'.out[1].pAppData.last_error = CHAN
               /\ last_error' = NoError
               /\ rc' = 1]_vars

\* a registration was handed to the host right after one with a nul byte in
\* its name was refused
C15_Witness ==
    /\ ret.op = "register" /\ ret.nth = 2 /\ ret.status = "Ok"
    /\ ret.calls = <<"sqlite3_vfs_register">> /\ rc = 1

\* C19, as the specification states its second part: a get_last_error that a
\* thread issues after its own failing call, with no step of the other thread
\* since that call began, returns the error that call deposited.
C19_AsStated ==
    \A t \in DOMAIN threads :
        (threads[t].pc = "queried" /\ threads[t].alone)
        => (threads[t].status = "SQLITE_OK"
            /\ threads[t].out = threads[t].err.msg \o <<0>>)

\* C19, amended: a get_last_error that a thread issues after its own failing
\* call, with no step of the other thread since that call began, returns the
\* error that call deposited when its message holds no nul byte and fits the
\* buffer with its terminator.
C19_OwnErrorWhenAlone ==
    \A t \in DOMAIN threads :
        (threads[t].pc = "queried" /\ threads[t].alone
           /\ ~NulInside(threads[t].err.msg)
           /\ Len(threads[t].err.msg) + 1 <= threads[t].len)
        => (threads[t].status = "SQLITE_OK"
            /\ threads[t].out = threads[t].err.msg \o <<0>>)

\* the first part of C19: the get_last_error after thread 1's failure has
\* returned the error thread 2's call deposited, not thread 1's own
C19_Witness ==
    /\ threads # NoThreads
    /\ threads[1].pc = "queried" /\ threads[1].err = ErrExists
    /\ threads[1].status = "SQLITE_OK"
    /\ threads[1].out = ErrDenied.msg \o <<0>>

\* C21, as the specification states it: shm_map, shm_lock, shm_unmap,
\* mem_fetch and mem_unfetch return a status other than OK on every call, and
\* shm_barrier changes no state.
C21_AsStated ==
    [][/\ ret'.op \in {"shm_map", "shm_lock", "shm_unmap", "mem_fetch", "mem_unfetch"}
            => ret'.status # "SQLITE_OK"
       /\ ret'.op = "shm_barrier"
            => (/\ last_error' = last_error /\ rc' = rc /\ files' = files
                /\ heap' = heap /\ disk' = disk /\ crashed' = crashed)]_vars

\* C21, amended: shm_map, shm_lock and mem_fetch return a status other than OK
\* on every call, shm_unmap and mem_unfetch return OK on every call, none of
\* the five changes a block, the heap or the storage, and shm_barrier changes
\* no state.
C21_Stubs ==
    [][/\ ret'.op \in {"shm_map", "shm_lock", "mem_fetch"}
            => ret'.status \in {"SQLITE_IOERR_SHMMAP", "SQLITE_IOERR_SHMLOCK",
                                "SQLITE_ERROR"}
       /\ ret'.op \in {"shm_unmap", "mem_unfetch"} => ret'.status = "SQLITE_OK"
       /\ ret'.op \in {"shm_map", "shm_lock", "shm_unmap", "mem_fetch", "mem_unfetch"}
            => (files' = files /\ heap' = heap /\ disk' = disk /\ rc' = rc)
       /\ ret'.op = "shm_barrier"
            => (/\ last_error' = last_error /\ rc' = rc /\ files' = files
                /\ heap' = heap /\ disk' = disk /\ crashed' = crashed)]_vars

\* shm_barrier has returned with an earlier call's error still in the Channel
C21_Witness ==
    ret.op = "shm_barrier" /\ last_error = ErrDenied /\ IsOpen(ret.h)

\* C22: a drop of a block that is still open releases its path string and its
\* File instance, each live until then and each once, and one Channel
\* reference; a drop of a block that was closed (fields null) releases nothing
\* and goes through no null or released pointer.
C22_DropMirrorsClose ==
    [][ret'.op = "drop" =>
          LET b == files[ret'.h] IN
          IF b.name # NULL /\ b.file # NULL
          THEN /\ heap[b.name].live /\ heap[b.file].live
               /\ ~heap'[b.name].live /\ ~heap'[b.file].live
               /\ Len(ret'.freed) = 2
               /\ Count(ret'.freed, b.name) = 1 /\ Count(ret'.freed, b.file) = 1
               /\ rc' = rc - 1
          ELSE /\ ret'.freed = <<>> /\ heap' = heap /\ rc' = rc
               /\ ~ret'.ub /\ ~crashed']_vars

\* C23: with two handles open on different paths, a file entry called on one
\* of them leaves the other's block (path field, File field, Channel field),
\* its path string, its File instance and its file's bytes as they were, and
\* the other stays open on a live File with the Channel still referenced.
C23_HandlesIndependent ==
    [][\A a, b \in Handles :
          (/\ a # b
           /\ ret'.op \in FileEntries /\ ret'.h = a
           /\ IsOpen(a) /\ IsOpen(b)
           /\ heap[files[a].file].bytes # heap[files[b].file].bytes)
          => /\ files'[b] = files[b]
             /\ heap'[files[b].name] = heap[files[b].name]
             /\ heap'[files[b].file] = heap[files[b].file]
             /\ heap'[files'[b].file].live /\ heap'[files'[b].name].live
             /\ disk'[heap[files[b].file].bytes] = disk[heap[files[b].file].bytes]
             /\ files'[b].last_error = CHAN /\ rc' >= 2]_vars

\* a handle whose file was written is closed while the other handle is open
\* on the other path, whose file was written too
C23_Witness ==
    /\ ret.op = "close" /\ ret.status = "SQLITE_OK"
    /\ Len(ret.freed) = 2
    /\ \E b \in Handles \ {ret.h} : IsOpen(b) /\ ContentOf(b) = <<1>>
    /\ Cardinality({h \in Handles : IsOpen(h)}) = 1
    /\ DOMAIN disk = {PathA, PathB}
    /\ disk[PathA] = <<1>> /\ disk[PathB] = <<1>>

\* C25: every get_last_error call leaves the Channel empty, also when it
\* returns an error status; a query that returns an error status copies
\* nothing to the buffer; and a query with a larger buffer made right after
\* one that was refused for the size of the message returns OK with no message.
C25_GetLastErrorAlwaysEmpties ==
    [][ret'.op = "get_last_error" =>
          /\ last_error' = NoError
          /\ (ret'.status # "SQLITE_OK" => ret'.out = <<>>)
          /\ (RefusedForSize(ret) /\ ret.len < ret'.len
                => ret'.status = "SQLITE_OK" /\ ret'.out = <<>>
                   /\ ret'.entry_err = NoError)]_vars

\* the retry with the larger buffer, right after a query that was refused for
\* the size of a message that would have fitted in the larger buffer
C25_Witness ==
    /\ ret.op = "get_last_error" /\ ret.nth = 3
    /\ ret.status = "SQLITE_OK" /\ ret.out = <<>>
    /\ ret.len = 32
    /\ last_error = NoError

\* C24 as stated: every open call with decodable flags and a null block
\* pointer returns cant-open with the null-pointer error in the Channel.
C24_AsStated ==
    [][(/\ ret'.op = "open" /\ ret'.h = NULL
        /\ OpenOptions_from_flags(ret'.flags) # NoOpts)
       => /\ ret'.status = "SQLITE_CANTOPEN"
          /\ last_error' = null_ptr_error]_vars

\* C24: an open call with decodable flags and a null block pointer returns
\* cant-open; when the provider's open succeeded the null-pointer error is in
\* the Channel and the File the provider returned is released once: no File
\* stays allocated, no block and no reference count changes.
C24_OpenNullBlock ==
    [][(/\ ret'.op = "open" /\ ret'.h = NULL
        /\ OpenOptions_from_flags(ret'.flags) # NoOpts)
       => /\ ret'.status = "SQLITE_CANTOPEN"
          /\ ret'.calls = <<"open">>
          /\ ret'.cap_err = NoError
               => /\ last_error' = null_ptr_error
                  /\ Len(ret'.freed) = 1
                  /\ heap' = heap
                  /\ files' = files
                  /\ rc' = rc]_vars

\* the provider opened the file and the block pointer was null
C24_Witness ==
    /\ ret.op = "open" /\ ret.h = NULL
    /\ ret.calls = <<"open">> /\ ret.cap_err = NoError
    /\ ret.status = "SQLITE_CANTOPEN"
    /\ last_error = null_ptr_error
    /\ Len(ret.freed) = 1
    /\ \A a \in Addrs : ~heap[a].live

\* C26: in every reachable state the Channel has one reference for the
\* registration and one for each block that holds an open file, each of which
\* points at the Channel; the count never reaches zero.
C26_ChannelReferences ==
    /\ rc = 1 + Cardinality({h \in Handles : IsOpen(h)})
    /\ \A h \in Handles : IsOpen(h) <=> files[h].last_error = CHAN
    /\ rc >= 1

\* two handles are open and a failed write through one of them has deposited
\* its error
C26_Witness ==
    /\ rc = 3
    /\ \A h \in Handles : IsOpen(h)
    /\ ret.op = "write" /\ ret.status # "SQLITE_OK"
    /\ last_error = ErrEof

====
